---------------------------- MODULE Spec2Model ----------------------------
(***************************************************************************)
(* TestMultipartBuilder of actix-web-multipart-test (src/src/lib.rs).      *)
(*                                                                         *)
(* A builder owns a boundary string and an ordered vector of parts.  The   *)
(* with_* methods push one part each; build consumes the builder and       *)
(* returns the Content-Type header pair and the multipart/form-data body.  *)
(*                                                                         *)
(* Strings and byte buffers are sequences of bytes; a byte is written as   *)
(* a one-character string.  An Option is a sequence of length 0 or 1.      *)
(***************************************************************************)
EXTENDS Naturals, Sequences, FiniteSets

VARIABLES
    uuid,       \* the value drawn by Uuid::new_v4() in new()
    boundary,   \* TestMultipartBuilder.boundary
    parts,      \* TestMultipartBuilder.parts
    pc,         \* "live": the builder is owned by the caller;
                \* "built": build has consumed it; "panicked": a call unwound
    result,     \* None, or Some of what build returned
    panic,      \* None, or Some of the error an unwrap() panicked with
    calls       \* the calls the test code has made on the builder, in order

vars == <<uuid, boundary, parts, pc, result, panic, calls>>

(***************************************************************************)
(* Bound of the model: the number of parts a builder is given.             *)
(***************************************************************************)
MaxParts == 2

None == <<>>
Some(x) == <<x>>

CR == "\r"
LF == "\n"
CRLF == <<CR, LF>>

(***************************************************************************)
(* The string literals of the format! calls of build, and of the with_*    *)
(* methods.                                                                *)
(***************************************************************************)
FmtDashes ==
    <<"-","-">>
FmtDispositionName ==
    <<"C","o","n","t","e","n","t","-","D","i","s","p","o","s","i","t","i","o","n",":"," ","f","o","r","m","-","d","a","t","a",";"," ","n","a","m","e","=","\"">>
FmtDispositionFilename ==
    <<"\"",";"," ","f","i","l","e","n","a","m","e","=","\"">>
FmtDispositionEnd ==
    <<"\"","\r","\n">>
FmtContentType ==
    <<"C","o","n","t","e","n","t","-","T","y","p","e",":"," ">>
FmtHeadersEnd ==
    <<"\r","\n","\r","\n">>
FmtContentTypeValue ==
    <<"m","u","l","t","i","p","a","r","t","/","f","o","r","m","-","d","a","t","a",";"," ","b","o","u","n","d","a","r","y","=">>
TextPlain ==
    <<"t","e","x","t","/","p","l","a","i","n">>
ApplicationJson ==
    <<"a","p","p","l","i","c","a","t","i","o","n","/","j","s","o","n">>
CONTENT_TYPE == "content-type"

(***************************************************************************)
(* Uuid::new_v4().to_string(): 128 random bits with the version nibble set *)
(* to 4 and the two top bits of the variant nibble set to 10, written as   *)
(* 32 lower-case hexadecimal digits in groups of 8-4-4-4-12 joined by      *)
(* hyphens.  A uuid is the sequence of its 32 nibbles.                     *)
(***************************************************************************)
HexDigits ==
    <<"0","1","2","3","4","5","6","7","8","9","a","b","c","d","e","f">>

NewV4(random) ==
    [i \in 1..32 |->
        IF i = 13 THEN 4
        ELSE IF i = 17 THEN 8 + (random[i] % 4)
        ELSE random[i]]

\* The random draws the model explores: every nibble equal to r.
RandomDraws == {[i \in 1..32 |-> r] : r \in {1, 14}}

Uuids == {NewV4(random) : random \in RandomDraws}

Hex(u, from, to) == [i \in 1..(to - from + 1) |-> HexDigits[u[from + i - 1] + 1]]

UuidToString(u) ==
    Hex(u, 1, 8) \o <<"-">> \o Hex(u, 9, 12) \o <<"-">> \o Hex(u, 13, 16)
        \o <<"-">> \o Hex(u, 17, 20) \o <<"-">> \o Hex(u, 21, 32)

(***************************************************************************)
(* HeaderValue::from_str: every byte must be a tab or a visible ASCII      *)
(* byte (>= 32 and not 127).  Of the bytes of the model, CR and LF are the *)
(* ones that are not.                                                      *)
(***************************************************************************)
IsValidHeaderByte(b) == b \notin {CR, LF}

HeaderValueFromStr(s) ==
    IF \A i \in 1..Len(s) : IsValidHeaderByte(s[i])
    THEN [ok |-> TRUE, value |-> s]
    ELSE [ok |-> FALSE, value |-> <<>>]

(***************************************************************************)
(* serde_json::to_vec.  A value is <<"Metadata", name>>, the struct of the *)
(* tests, written {"name":"<name>"} with the string escaped, or            *)
(* <<"KeyMustBeString">>, a value whose Serialize implementation fails     *)
(* (a map with a key that is not a string).                                *)
(***************************************************************************)
RECURSIVE JsonEscape(_)
JsonEscape(s) ==
    IF s = <<>> THEN <<>>
    ELSE LET c == Head(s)
             e == IF c = "\"" THEN <<"\\","\"">>
                  ELSE IF c = "\\" THEN <<"\\","\\">>
                  ELSE IF c = CR THEN <<"\\","r">>
                  ELSE IF c = LF THEN <<"\\","n">>
                  ELSE <<c>>
         IN  e \o JsonEscape(Tail(s))

JsonString(s) == <<"\"">> \o JsonEscape(s) \o <<"\"">>

SerdeJsonToVec(v) ==
    IF v[1] = "Metadata"
    THEN [ok |-> TRUE,
          bytes |-> <<"{">> \o JsonString(<<"n","a","m","e">>) \o <<":">>
                        \o JsonString(v[2]) \o <<"}">>]
    ELSE [ok |-> FALSE, bytes |-> <<>>]

(***************************************************************************)
(* The arguments the test code passes.                                     *)
(***************************************************************************)
Names == { <<>>, <<"n">>, <<"q","\"">> }

\* The third text begins with "--" and that boundary.
Texts == { <<>>, <<"h","i">>, FmtDashes \o UuidToString(NewV4([i \in 1..32 |-> 1])) }

\* (filename, content_type, content) of a with_bytes call.  The second
\* content holds the delimiter line of one of the boundaries new() may draw.
FileArgs ==
    { << <<"a",".","t">>, <<"v","/","m">>, <<"d",CR,LF,"-">> >>,
      << <<>>, <<>>,
         CRLF \o FmtDashes \o UuidToString(NewV4([i \in 1..32 |-> 1])) \o CRLF >> }

JsonValues == { <<"Metadata", <<"X","\"">> >>, <<"KeyMustBeString">> }

\* (content_type, filename, content) of a with_part call.
PartArgs ==
    { << TextPlain, None, <<"h","i">> >>,
      << <<"t"," ">>, None, <<"h","i">> >>,
      << <<"a",CR,LF>>, Some(<<"f","\\","\"">>), <<>> >> }

(***************************************************************************)
(* new()                                                                   *)
(***************************************************************************)
new(u) ==
    /\ uuid = u
    /\ boundary = UuidToString(u)
    /\ parts = <<>>

Init ==
    /\ \E u \in Uuids : new(u)
    /\ pc = "live"
    /\ result = None
    /\ panic = None
    /\ calls = <<>>

(***************************************************************************)
(* with_part: push the part, return the builder.                           *)
(***************************************************************************)
Part(name, content_type, filename, content) ==
    [name |-> name, content_type |-> content_type,
     filename |-> filename, content |-> content]

\* A faulty with_part: a part replaces the part of the same name, if any.
with_part_replacing(name, content_type, filename, content) ==
    LET p == [name |-> name, content_type |-> content_type,
              filename |-> filename, content |-> content]
        same == {i \in 1..Len(parts) : parts[i].name = name}
    IN  /\ parts' = IF same = {} THEN Append(parts, p)
                    ELSE [i \in 1..Len(parts) |-> IF i \in same THEN p ELSE parts[i]]
        /\ UNCHANGED <<uuid, boundary, pc, result, panic>>

with_part(name, content_type, filename, content) ==
    /\ parts' = Append(parts, Part(name, content_type, filename, content))
    /\ UNCHANGED <<uuid, boundary, pc, result, panic>>

with_text(name, text) ==
    with_part(name, TextPlain, None, text)

\* A faulty with_bytes: an empty filename is taken for no filename.
with_bytes_dropping_empty(name, filename, content_type, content) ==
    with_part(name, content_type,
              IF filename = <<>> THEN None ELSE Some(filename), content)

with_bytes(name, filename, content_type, content) ==
    with_part(name, content_type, Some(filename), content)

\* A faulty with_json: unwrap_or_default() in place of unwrap().
with_json_or_default(name, json_data) ==
    with_part(name, ApplicationJson, None, SerdeJsonToVec(json_data).bytes)

with_json(name, json_data) ==
    LET content == SerdeJsonToVec(json_data)
    IN  IF content.ok
        THEN with_part(name, ApplicationJson, None, content.bytes)
        ELSE \* unwrap() panics; the builder, moved into the call, is dropped
             /\ pc' = "panicked"
             /\ panic' = Some("serde_json::Error")
             /\ UNCHANGED <<uuid, boundary, parts, result>>

(***************************************************************************)
(* build                                                                   *)
(***************************************************************************)
\* A faulty Disposition: double quotes of the name and the filename escaped.
RECURSIVE EscapeQuotes(_)
EscapeQuotes(s) ==
    IF s = <<>> THEN <<>>
    ELSE (IF Head(s) = "\"" THEN <<"\\","\"">> ELSE <<Head(s)>>)
            \o EscapeQuotes(Tail(s))

DispositionEscaped(part) ==
    IF part.filename # None
    THEN FmtDispositionName \o EscapeQuotes(part.name) \o FmtDispositionFilename
            \o EscapeQuotes(part.filename[1]) \o FmtDispositionEnd
    ELSE FmtDispositionName \o EscapeQuotes(part.name) \o FmtDispositionEnd

Disposition(part) ==
    IF part.filename # None
    THEN FmtDispositionName \o part.name \o FmtDispositionFilename
            \o part.filename[1] \o FmtDispositionEnd
    ELSE FmtDispositionName \o part.name \o FmtDispositionEnd

\* A faulty BuildPart: no CRLF after the content.
BuildPartNoFinalCRLF(b, part) ==
    FmtDashes \o b \o CRLF
        \o Disposition(part)
        \o FmtContentType \o part.content_type \o FmtHeadersEnd
        \o part.content

\* One iteration of the loop over self.parts: what it appends to body.
BuildPart(b, part) ==
    FmtDashes \o b \o CRLF
        \o Disposition(part)
        \o FmtContentType \o part.content_type \o FmtHeadersEnd
        \o part.content
        \o CRLF

\* A faulty BuildLoop: the parts taken from the back of the vector.
RECURSIVE BuildLoopReversed(_, _, _)
BuildLoopReversed(body, b, ps) ==
    IF ps = <<>> THEN body
    ELSE BuildLoopReversed(body \o BuildPart(b, ps[Len(ps)]), b,
                           SubSeq(ps, 1, Len(ps) - 1))

RECURSIVE BuildLoop(_, _, _)
BuildLoop(body, b, ps) ==
    IF ps = <<>> THEN body
    ELSE BuildLoop(body \o BuildPart(b, Head(ps)), b, Tail(ps))

\* A faulty BuildBody: nothing at all for a builder without parts.
BuildBodyEmptyForNoParts(b, ps) ==
    IF ps = <<>> THEN <<>>
    ELSE BuildLoop(<<>>, b, ps) \o FmtDashes \o b \o FmtDashes \o CRLF

BuildBody(b, ps) ==
    BuildLoop(<<>>, b, ps) \o FmtDashes \o b \o FmtDashes \o CRLF

\* A faulty ContentTypeValue: the boundary parameter quoted.
ContentTypeValueQuoted(b) ==
    HeaderValueFromStr(FmtContentTypeValue \o <<"\"">> \o b \o <<"\"">>)

\* A faulty ContentTypeValue: the value ended by CRLF, like a header line.
ContentTypeValueLine(b) ==
    HeaderValueFromStr(FmtContentTypeValue \o b \o CRLF)

ContentTypeValue(b) ==
    HeaderValueFromStr(FmtContentTypeValue \o b)

build ==
    LET body == BuildBody(boundary, parts)
        content_type_value == ContentTypeValue(boundary)
    IN  IF content_type_value.ok
        THEN /\ result' = Some([header |-> <<CONTENT_TYPE, content_type_value.value>>,
                                body |-> body])
             /\ pc' = "built"
             /\ UNCHANGED <<uuid, boundary, parts, panic>>
        ELSE /\ pc' = "panicked"
             /\ panic' = Some("InvalidHeaderValue")
             /\ UNCHANGED <<uuid, boundary, parts, result>>

(***************************************************************************)
(* The calls of the test code.  Every method takes self by value, so a     *)
(* call is possible only while the caller still owns the builder.          *)
(***************************************************************************)
Call(op, args) == calls' = Append(calls, [op |-> op, args |-> args])

\* A faulty ownership: build takes &self, and the builder stays usable.
OwnedAfterBuild == pc \in {"live", "built"}

Owned == pc = "live"

CallWithText ==
    \E name \in Names, text \in Texts :
        /\ Owned /\ Len(parts) < MaxParts
        /\ with_text(name, text)
        /\ Call("with_text", <<name, text>>)

CallWithBytes ==
    \E name \in Names, a \in FileArgs :
        /\ Owned /\ Len(parts) < MaxParts
        /\ with_bytes(name, a[1], a[2], a[3])
        /\ Call("with_bytes", <<name, a[1], a[2], a[3]>>)

CallWithJson ==
    \E name \in Names, json_data \in JsonValues :
        /\ Owned /\ Len(parts) < MaxParts
        /\ with_json(name, json_data)
        /\ Call("with_json", <<name, json_data>>)

CallWithPart ==
    \E name \in Names, a \in PartArgs :
        /\ Owned /\ Len(parts) < MaxParts
        /\ with_part(name, a[1], a[2], a[3])
        /\ Call("with_part", <<name, a[1], a[2], a[3]>>)

CallBuild ==
    /\ Owned
    /\ build
    /\ Call("build", <<>>)

Next ==
    \/ CallWithText
    \/ CallWithBytes
    \/ CallWithJson
    \/ CallWithPart
    \/ CallBuild

Spec == Init /\ [][Next]_vars


(***************************************************************************)
(* The wire format of the specification, written from its grammar:         *)
(*                                                                         *)
(*   --BOUNDARY CRLF                                                       *)
(*   Content-Disposition: form-data; name="NAME"[; filename="FILENAME"]    *)
(*   CRLF Content-Type: CONTENT_TYPE CRLF CRLF <raw bytes> CRLF            *)
(*   ... --BOUNDARY-- CRLF                                                 *)
(***************************************************************************)
WireDashes ==
    <<"-","-">>
WireDispositionName ==
    <<"C","o","n","t","e","n","t","-","D","i","s","p","o","s","i","t","i","o","n",":"," ","f","o","r","m","-","d","a","t","a",";"," ","n","a","m","e","=","\"">>
WireFilenameAttr ==
    <<";"," ","f","i","l","e","n","a","m","e","=","\"">>
WireQuote ==
    <<"\"">>
WireContentType ==
    <<"C","o","n","t","e","n","t","-","T","y","p","e",":"," ">>
WireMultipartFormData ==
    <<"m","u","l","t","i","p","a","r","t","/","f","o","r","m","-","d","a","t","a",";"," ","b","o","u","n","d","a","r","y","=">>
WireBoundaryParam ==
    <<"b","o","u","n","d","a","r","y","=">>
WireTextPlain ==
    <<"t","e","x","t","/","p","l","a","i","n">>
WireApplicationJson ==
    <<"a","p","p","l","i","c","a","t","i","o","n","/","j","s","o","n">>

WireEnc(B, p) ==
    WireDashes \o B \o CRLF
        \o WireDispositionName \o p.name \o WireQuote
        \o (IF Len(p.filename) = 1
            THEN WireFilenameAttr \o p.filename[1] \o WireQuote
            ELSE <<>>)
        \o CRLF
        \o WireContentType \o p.content_type \o CRLF \o CRLF
        \o p.content \o CRLF

WireClose(B) == WireDashes \o B \o WireDashes \o CRLF

\* The concatenation of the first n sequences of ss.
RECURSIVE Concat(_, _)
Concat(ss, n) == IF n = 0 THEN <<>> ELSE Concat(ss, n - 1) \o ss[n]

WireBody(B, ps) ==
    Concat([i \in 1..Len(ps) |-> WireEnc(B, ps[i])], Len(ps)) \o WireClose(B)

StartsWith(s, i, lit) ==
    /\ i >= 1
    /\ i + Len(lit) - 1 <= Len(s)
    /\ \A k \in 1..Len(lit) : s[i + k - 1] = lit[k]

\* The least index >= i at which lit occurs in s; 0 if there is none.
Find(s, i, lit) ==
    LET hits == {k \in i..(Len(s) + 1 - Len(lit)) : StartsWith(s, k, lit)}
    IN  IF hits = {} THEN 0 ELSE CHOOSE k \in hits : \A h \in hits : k <= h

Built == pc = "built"
Returned == result[1]
LastCall == calls[Len(calls)]
IsAdd(c) == c.op # "build"
Adds == SelectSeq(calls, IsAdd)

(***************************************************************************)
(* C1.  The body build returns is enc(p1) .. enc(pn) followed by           *)
(* "--" B "--" CRLF, every field embedded verbatim, and the header is      *)
(* (Content-Type, "multipart/form-data; boundary=" B).                     *)
(***************************************************************************)
C1_BuildFormat ==
    Built =>
        /\ Returned.body = WireBody(boundary, parts)
        /\ Returned.header = <<"content-type", WireMultipartFormData \o boundary>>

C1_Witness ==
    /\ Built
    /\ Len(parts) = 2
    /\ parts[1].filename = None
    /\ parts[2].filename # None
    /\ \E i \in 1..Len(parts[1].name) : parts[1].name[i] = "\""

(***************************************************************************)
(* C7.  build on a builder to which no part was added returns the closing  *)
(* delimiter "--" BOUNDARY "--" CRLF alone, with the content-type value    *)
(* "multipart/form-data; boundary=" BOUNDARY.                              *)
(***************************************************************************)
C7_EmptyCollection ==
    (Built /\ Len(calls) = 1) =>
        /\ Returned.body = WireDashes \o UuidToString(uuid) \o WireDashes \o CRLF
        /\ Returned.header[2] = WireMultipartFormData \o UuidToString(uuid)

C7_Witness ==
    Built /\ Len(calls) = 1 /\ parts = <<>> /\ Len(Returned.body) = 42

(***************************************************************************)
(* The part that each add call of the test code describes.                 *)
(***************************************************************************)
PartOfCall(c) ==
    IF c.op = "with_text"
    THEN [name |-> c.args[1], content_type |-> WireTextPlain,
          filename |-> None, content |-> c.args[2]]
    ELSE IF c.op = "with_bytes"
    THEN [name |-> c.args[1], content_type |-> c.args[3],
          filename |-> Some(c.args[2]), content |-> c.args[4]]
    ELSE IF c.op = "with_json"
    THEN [name |-> c.args[1], content_type |-> WireApplicationJson,
          filename |-> None, content |-> SerdeJsonToVec(c.args[2]).bytes]
    ELSE [name |-> c.args[1], content_type |-> c.args[2],
          filename |-> c.args[3], content |-> c.args[4]]

\* The i-th section of a body whose sections are secs: the bytes after the
\* first i-1 sections, as long as secs[i].
RECURSIVE Offset(_, _)
Offset(secs, i) == IF i = 1 THEN 0 ELSE Offset(secs, i - 1) + Len(secs[i - 1])

Section(body, secs, i) ==
    SubSeq(body, Offset(secs, i) + 1, Offset(secs, i) + Len(secs[i]))

(***************************************************************************)
(* C3.  The token after "boundary=" in the returned content-type value is  *)
(* the token of every part delimiter line and of the closing delimiter     *)
(* line of the body, and is the token generated by new().                  *)
(***************************************************************************)
HeaderBoundary(value) ==
    LET at == Find(value, 1, WireBoundaryParam)
    IN  IF at = 0 THEN <<>>
        ELSE SubSeq(value, at + Len(WireBoundaryParam), Len(value))

C3_BoundaryConsistency ==
    Built =>
        LET T == HeaderBoundary(Returned.header[2])
            body == Returned.body
            n == Len(parts)
            secs == [i \in 1..n |-> WireEnc(T, parts[i])]
            end == Offset(secs, n + 1)
        IN  /\ T = UuidToString(uuid)
            /\ \A i \in 1..n :
                  StartsWith(body, Offset(secs, i) + 1, WireDashes \o T \o CRLF)
            /\ StartsWith(body, end + 1, WireDashes \o T \o WireDashes \o CRLF)
            /\ Len(body) = end + Len(T) + 6

C3_Witness ==
    /\ Built
    /\ Len(parts) = 2
    /\ HeaderBoundary(Returned.header[2]) = boundary
    /\ Len(boundary) = 36

(***************************************************************************)
(* C4.  The i-th part section of the body is the encoding of the part      *)
(* added by the i-th call, whatever the kinds of the calls and also when   *)
(* names repeat: nothing is reordered, merged, deduplicated or dropped.    *)
(***************************************************************************)
C4_OrderPreservation ==
    Built =>
        LET body == Returned.body
            n == Len(Adds)
            secs == [i \in 1..n |-> WireEnc(boundary, PartOfCall(Adds[i]))]
        IN  /\ \A i \in 1..n : Section(body, secs, i) = secs[i]
            /\ Len(body) = Offset(secs, n + 1) + Len(WireClose(boundary))

C4_Witness ==
    /\ Built
    /\ Len(Adds) = 2
    /\ Adds[1].op # Adds[2].op
    /\ Adds[1].args[1] = Adds[2].args[1]
    /\ PartOfCall(Adds[1]) # PartOfCall(Adds[2])

(***************************************************************************)
(* C10.  Each convenience method is one with_part call with fixed fields:  *)
(* with_text gives (name, "text/plain", no filename, the bytes of text);   *)
(* with_bytes gives (name, content_type, the filename, content), with a    *)
(* filename also when it is empty; with_json gives (name,                  *)
(* "application/json", no filename, the JSON encoding of the value).       *)
(***************************************************************************)
C10_ConvenienceMethods ==
    (pc # "panicked") =>
        /\ Len(parts) = Len(Adds)
        /\ \A i \in 1..Len(parts) : parts[i] = PartOfCall(Adds[i])

C10_Witness ==
    /\ pc = "live"
    /\ Len(Adds) = 2
    /\ Adds[1].op = "with_bytes" /\ Adds[1].args[2] = <<>>
    /\ parts[1].filename = Some(<<>>)
    /\ Adds[2].op = "with_json"
    /\ parts[2].content =
         <<"{","\"","n","a","m","e","\"",":","\"","X","\\","\"","\"","}">>

(***************************************************************************)
(* C8.  A new builder has no part.  As stated, every add call appends      *)
(* exactly one part at the end and leaves the boundary and the parts       *)
(* before it as they were.                                                 *)
(***************************************************************************)
AddCallStep == calls' # calls /\ IsAdd(calls'[Len(calls')])

AppendsOne ==
    /\ Len(parts') = Len(parts) + 1
    /\ SubSeq(parts', 1, Len(parts)) = parts
    /\ boundary' = boundary

C8_EveryAddAppends == [][AddCallStep => AppendsOne]_vars

(***************************************************************************)
(* C8, amended.  A new builder has no part; every add call that returns    *)
(* appends exactly one part at the end and leaves the boundary and the     *)
(* parts before it as they were, so that after k such calls the builder    *)
(* holds k parts; no step lowers the part count or changes the boundary.   *)
(***************************************************************************)
C8_AddsAppendOne ==
    /\ parts = <<>>
    /\ [][/\ (AddCallStep /\ pc' = "live") =>
                (AppendsOne /\ Len(parts') = Len(calls'))
          /\ Len(parts') >= Len(parts)
          /\ boundary' = boundary]_vars

C8_Witness ==
    /\ pc = "live"
    /\ Len(calls) = 2
    /\ Len(parts) = 2
    /\ parts[1].name = parts[2].name
    /\ parts[1] # parts[2]

(***************************************************************************)
(* C9.  build consumes the builder: once build has been called no add call *)
(* and no second build follows, and what build returned is the encoding of *)
(* the parts added before it and stays as it is.                           *)
(***************************************************************************)
BuildCalls == SelectSeq(calls, LAMBDA c : c.op = "build")

C9_ConsumedOnce ==
    [][/\ (Len(BuildCalls) > 0) => UNCHANGED vars
       /\ (pc' = "built") =>
            /\ Len(BuildCalls') = 1
            /\ calls'[Len(calls')].op = "build"
            /\ result'[1].body = WireBody(boundary', [i \in 1..Len(Adds') |-> PartOfCall(Adds'[i])])]_vars

C9_Witness ==
    /\ Built
    /\ Len(calls) = 3
    /\ LastCall.op = "build"
    /\ ~ ENABLED Next

(***************************************************************************)
(* C6.  build never fails: whatever names, filenames, content types and    *)
(* contents the parts were given, empty ones too, a call of build returns  *)
(* a header pair and a body, and the header value made from the generated  *)
(* boundary is always accepted.                                            *)
(***************************************************************************)
C6_BuildTotal ==
    /\ panic # Some("InvalidHeaderValue")
    /\ (calls # <<>> /\ LastCall.op = "build") =>
          /\ pc = "built"
          /\ panic = None
          /\ Len(result) = 1
          /\ Returned.header[1] = "content-type"
          /\ Len(Returned.body) >= Len(WireClose(boundary))
    /\ (pc = "live") => ENABLED CallBuild

C6_Witness ==
    /\ Built
    /\ Len(parts) = 2
    /\ parts[1].name = <<>> /\ parts[1].content_type = <<>>
    /\ parts[1].filename = Some(<<>>)
    /\ parts[2].content = <<>>
    /\ \E i \in 1..Len(parts[2].content_type) : parts[2].content_type[i] = CR

(***************************************************************************)
(* C5.  with_json on a value that cannot be serialized fails with the      *)
(* serializer's error, which reaches the caller: no part is appended,      *)
(* empty or otherwise, and no body is returned for that build.             *)
(***************************************************************************)
Unserializable(v) == v[1] = "KeyMustBeString"

FailingJsonCall(c) == c.op = "with_json" /\ Unserializable(c.args[2])

C5_SerializationFailure ==
    \A i \in 1..Len(calls) :
        FailingJsonCall(calls[i]) =>
            /\ i = Len(calls)
            /\ pc = "panicked"
            /\ panic = Some("serde_json::Error")
            /\ result = None
            /\ Len(parts) = i - 1
            /\ \A k \in 1..Len(parts) : parts[k] = PartOfCall(calls[k])

C5_Witness ==
    /\ Len(calls) = 2
    /\ FailingJsonCall(calls[2])
    /\ pc = "panicked"
    /\ Len(parts) = 1

(***************************************************************************)
(* A reference decoder of multipart/form-data (RFC 2046 section 5.1.1,     *)
(* RFC 7578), for the round trip.  The boundary is the token after         *)
(* "boundary=" in the content-type value; a delimiter is CRLF "--"         *)
(* boundary, the first one without its CRLF; a part is its header lines, a *)
(* blank line, and the bytes up to the next delimiter.  A header value is  *)
(* what follows the colon, without the white space around it; the          *)
(* parameters of Content-Disposition are quoted strings, where a backslash *)
(* quotes the byte after it.                                               *)
(***************************************************************************)
RefContentDispositionField ==
    <<"C","o","n","t","e","n","t","-","D","i","s","p","o","s","i","t","i","o","n">>
RefContentTypeField ==
    <<"C","o","n","t","e","n","t","-","T","y","p","e">>
RefFormData ==
    <<"f","o","r","m","-","d","a","t","a">>
RefNameKey ==
    <<"n","a","m","e">>
RefFilenameKey ==
    <<"f","i","l","e","n","a","m","e">>

IsSpace(b) == b \in {" ", "\t"}

RECURSIVE TrimLeft(_)
TrimLeft(s) == IF s # <<>> /\ IsSpace(Head(s)) THEN TrimLeft(Tail(s)) ELSE s

RECURSIVE TrimRight(_)
TrimRight(s) ==
    IF s # <<>> /\ IsSpace(s[Len(s)]) THEN TrimRight(SubSeq(s, 1, Len(s) - 1)) ELSE s

Trim(s) == TrimRight(TrimLeft(s))

\* The lines of a header block, each ended by CRLF.
RECURSIVE Lines(_)
Lines(block) ==
    IF block = <<>> THEN <<>>
    ELSE LET e == Find(block, 1, CRLF)
         IN  IF e = 0 THEN <<block>>
             ELSE <<SubSeq(block, 1, e - 1)>> \o Lines(SubSeq(block, e + 2, Len(block)))

\* The value of the first header line of the field; None if there is none.
FieldValue(lines, field) ==
    LET hits == {i \in 1..Len(lines) : StartsWith(lines[i], 1, field \o <<":">>)}
    IN  IF hits = {} THEN None
        ELSE LET i == CHOOSE i \in hits : \A h \in hits : i <= h
             IN  Some(Trim(SubSeq(lines[i], Len(field) + 2, Len(lines[i]))))

\* The quoted string that opens at s[i]: its value and the index after it.
RECURSIVE Quoted(_, _, _)
Quoted(s, i, acc) ==
    IF i > Len(s) THEN [ok |-> FALSE, value |-> <<>>, next |-> i]
    ELSE IF s[i] = "\"" THEN [ok |-> TRUE, value |-> acc, next |-> i + 1]
    ELSE IF s[i] = "\\" /\ i < Len(s) THEN Quoted(s, i + 2, Append(acc, s[i + 1]))
    ELSE Quoted(s, i + 1, Append(acc, s[i]))

\* The parameters ; key="value" of a header value from index i on, as a
\* sequence of <<key, value>>; malformed parameters make it fail.
RECURSIVE Params(_, _, _)
Params(s, i, acc) ==
    IF i > Len(s) THEN [ok |-> TRUE, params |-> acc]
    ELSE IF ~ StartsWith(s, i, <<";">>) THEN [ok |-> FALSE, params |-> <<>>]
    ELSE LET eq == Find(s, i + 1, <<"=">>)
         IN  IF eq = 0 \/ ~ StartsWith(s, eq + 1, <<"\"">>)
             THEN [ok |-> FALSE, params |-> <<>>]
             ELSE LET key == Trim(SubSeq(s, i + 1, eq - 1))
                      q == Quoted(s, eq + 2, <<>>)
                  IN  IF ~ q.ok THEN [ok |-> FALSE, params |-> <<>>]
                      ELSE Params(s, q.next, Append(acc, <<key, q.value>>))

ParamValue(params, key) ==
    LET hits == {i \in 1..Len(params) : params[i][1] = key}
    IN  IF hits = {} THEN None
        ELSE Some(params[CHOOSE i \in hits : \A h \in hits : i <= h][2])

\* The part with the header block and the content.
DecodePart(block, content) ==
    LET lines == Lines(block)
        cd == FieldValue(lines, RefContentDispositionField)
        ct == FieldValue(lines, RefContentTypeField)
    IN  IF cd = None \/ ct = None \/ ~ StartsWith(cd[1], 1, RefFormData)
        THEN [ok |-> FALSE, part |-> <<>>]
        ELSE LET ps == Params(cd[1], Len(RefFormData) + 1, <<>>)
             IN  IF ~ ps.ok \/ ParamValue(ps.params, RefNameKey) = None
                 THEN [ok |-> FALSE, part |-> <<>>]
                 ELSE [ok |-> TRUE,
                       part |-> [name |-> ParamValue(ps.params, RefNameKey)[1],
                                 content_type |-> ct[1],
                                 filename |-> ParamValue(ps.params, RefFilenameKey),
                                 content |-> content]]

\* The parts from the delimiter "--" T at index i of the body on.
RECURSIVE DecodeFrom(_, _, _, _)
DecodeFrom(body, T, i, acc) ==
    LET dash == WireDashes \o T
        j == i + Len(dash)
    IN  IF ~ StartsWith(body, i, dash) THEN [ok |-> FALSE, parts |-> <<>>]
        ELSE IF StartsWith(body, j, WireDashes) THEN [ok |-> TRUE, parts |-> acc]
        ELSE IF ~ StartsWith(body, j, CRLF) THEN [ok |-> FALSE, parts |-> <<>>]
        ELSE LET blank == Find(body, j, CRLF \o CRLF)
                 next == IF blank = 0 THEN 0 ELSE Find(body, blank + 2, CRLF \o dash)
             IN  IF blank = 0 \/ next = 0 THEN [ok |-> FALSE, parts |-> <<>>]
                 ELSE LET p == DecodePart(SubSeq(body, j + 2, blank + 1),
                                          SubSeq(body, blank + 4, next - 1))
                      IN  IF ~ p.ok THEN [ok |-> FALSE, parts |-> <<>>]
                          ELSE DecodeFrom(body, T, next + 2, Append(acc, p.part))

Decode(value, body) == DecodeFrom(body, HeaderBoundary(value), 1, <<>>)

(***************************************************************************)
(* C2.  As stated: decoding the returned body with the boundary of the     *)
(* returned content-type value gives back the parts that were added, in    *)
(* order, with the same names, content types, filenames and contents.      *)
(***************************************************************************)
RoundTrips ==
    Decode(Returned.header[2], Returned.body) =
        [ok |-> TRUE, parts |-> [i \in 1..Len(Adds) |-> PartOfCall(Adds[i])]]

Holds(s, bytes) == \E i \in 1..Len(s) : s[i] \in bytes

PlainParam(s) == ~ Holds(s, {"\"", "\\", CR, LF})

PlainValue(s) == ~ Holds(s, {CR, LF}) /\ Trim(s) = s

PlainContent(s, B) ==
    /\ Find(s, 1, CRLF \o WireDashes \o B) = 0
    /\ ~ StartsWith(s, 1, WireDashes \o B)

PlainPart(p, B) ==
    /\ PlainParam(p.name)
    /\ \A i \in 1..Len(p.filename) : PlainParam(p.filename[i])
    /\ PlainValue(p.content_type)
    /\ PlainContent(p.content, B)

=============================================================================
